---------------------------- MODULE Spec2Model ----------------------------
(***************************************************************************)
(* Model of the data-driven API test runner (src/tests/test_api.py) and    *)
(* the collaborators it calls (src/core/api_client.py,                     *)
(* src/core/db_manager.py, src/core/excel_writer.py), of the loader of the *)
(* test cases (src/core/excel_reader.py, src/core/test_data_model.py) and  *)
(* of the dashboard callback (src/web/app.py).                             *)
(*                                                                         *)
(* Python values are tagged records: None, Str(s), Dict(d), Num(n).  A     *)
(* text is a sequence of tokens, a dict is a set of <<key, value>> pairs.  *)
(* A local variable that has not been assigned yet holds Unbound; reading  *)
(* it raises UnboundLocalError.                                            *)
(*                                                                         *)
(* Fields of APIData that the run only copies (TestCase, Method, URL,      *)
(* Body) are left out; Endpoint stands for them.                           *)
(***************************************************************************)
EXTENDS Integers, Sequences, FiniteSets, TLC

VARIABLES
    test_data,       \* the list of APIData handed to test_api (objects are mutable)
    declared,        \* history: test_data as it was when the run started
    pc,              \* position of test_api: init, loop, aggregated, raised
    exception,       \* what ended test_api, "" while none
    idx,             \* 1-based index of the next test case of the for loop
    execution_id,    \* local execution_id
    response,        \* local response (survives from one iteration to the next)
    duration,        \* local duration
    response_size,   \* local response_size
    durations,       \* list durations
    response_sizes,  \* list response_sizes
    results,         \* list results
    db_results,      \* (execution_id, result) pairs handed to insert_test_result
    db_summary,      \* (execution_id, summary) pairs handed to insert_test_summary
    summary,         \* local summary
    sent,            \* history: the calls of requests.request, each with the
                     \* loop index it was made for and how it ended
    fn_args,         \* arguments of a function applied on its own
    fn_ret,          \* what that function returned
    db_faults,       \* the calls of insert_test_result (1, 2, ...) and of
                     \* insert_test_summary (0) that fail inside the store
    db               \* the rows of the tables test_results and test_summary

vars == <<test_data, declared, pc, exception, idx, execution_id, response,
          duration, response_size, durations, response_sizes, results,
          db_results, db_summary, summary, sent, fn_args, fn_ret,
          db_faults, db>>

-----------------------------------------------------------------------------
(* Bounds *)

MaxCases == 3

-----------------------------------------------------------------------------
(* Python values *)

None == [t |-> "None"]
Unbound == [t |-> "Unbound"]
Str(s) == [t |-> "str", s |-> s]
Dict(d) == [t |-> "dict", d |-> d]
Num(n) == [t |-> "num", n |-> n]
Bool(b) == [t |-> "bool", b |-> b]
Pair(a, b) == [t |-> "tuple", a |-> a, b |-> b]
List(l) == [t |-> "list", l |-> l]

\* bool(value) for the values the model holds
Truthy(v) ==
    CASE v.t = "None" -> FALSE
      [] v.t = "str" -> v.s # <<>>
      [] v.t = "dict" -> v.d # {}
      [] v.t = "list" -> v.l # <<>>
      [] v.t = "num" -> v.n # 0
      [] v.t = "bool" -> v.b
      [] OTHER -> TRUE

\* d[key] = value on a dict: the entry of key is replaced or added
DictSet(d, key, value) ==
    Dict({p \in d.d : p[1] # key} \cup {<<key, value>>})

\* str(value) inside an f-string, as tokens
RECURSIVE Format(_)
RECURSIVE FormatItems(_)
FormatItems(items) ==
    IF items = {} THEN <<>>
    ELSE LET p == CHOOSE q \in items : TRUE
         IN <<p[1], ":">> \o Format(p[2]) \o FormatItems(items \ {p})
Format(v) ==
    CASE v.t = "None" -> <<"None">>
      [] v.t = "str" -> v.s
      [] v.t = "bool" -> IF v.b THEN <<"True">> ELSE <<"False">>
      [] v.t = "dict" -> <<"{">> \o FormatItems(v.d) \o <<"}">>
      [] OTHER -> <<"?">>

\* str(code) of a status code
StatusText(code) ==
    CASE code = 200 -> "200"
      [] code = 404 -> "404"
      [] code = 500 -> "500"
      [] OTHER -> "other"

RECURSIVE SumSeq(_)
SumSeq(s) == IF s = <<>> THEN 0 ELSE Head(s) + SumSeq(Tail(s))

RECURSIVE CountStatus(_, _)
CountStatus(rs, st) ==
    IF rs = <<>> THEN 0
    ELSE (IF Head(rs).Status = st THEN 1 ELSE 0) + CountStatus(Tail(rs), st)

-----------------------------------------------------------------------------
(* core/api_client.py and the HTTP response *)

Response(code, ctype, text) ==
    [t |-> "Response", status_code |-> code, content_type |-> ctype, text |-> text]

\* 'application/json' in response.headers.get('Content-Type', '')
IsJsonContentType(ctype) ==
    ctype \in {"application/json", "application/json; charset=utf-8"}

\* The texts json.loads accepts: null, {}, [] and an object of one boolean
\* member
JsonParses(text) ==
    \/ text = <<"null">>
    \/ text = <<"{", "}">>
    \/ text = <<"[", "]">>
    \/ /\ Len(text) = 5
       /\ text[1] = "{"
       /\ text[2] \notin {"{", "}", ":", "true", "false", "null"}
       /\ text[3] = ":"
       /\ text[4] \in {"true", "false"}
       /\ text[5] = "}"

\* response.json() on a text that parses
json_loads(text) ==
    IF text = <<"null">> THEN None
    ELSE IF text = <<"[", "]">> THEN List(<<>>)
    ELSE IF Len(text) = 2 THEN Dict({})
    ELSE Dict({<<text[2], Bool(text[4] = "true")>>})

\* APIClient.send_request: what requests.request did is the outcome.  A
\* RequestException is turned into a dict, any other exception propagates.
send_request(outcome) ==
    CASE outcome.kind = "response" ->
            [raised |-> FALSE, value |-> outcome.response]
      [] outcome.kind = "RequestException" ->
            [raised |-> FALSE,
             value |-> Dict({<<"error", Str(<<"Request failed: ", "transport">>)>>})]
      [] OTHER ->
            [raised |-> TRUE, value |-> None]

-----------------------------------------------------------------------------
(* tests/test_api.py: the helpers *)

\* prepare_headers_and_auth with the two first branches in the other order:
\* user and password are looked at before Authorization
prepare_headers_and_auth_basic_first(test_case) ==
    LET own == Truthy(test_case.Headers)
        base == IF own THEN test_case.Headers ELSE Dict({})
    IN IF Truthy(test_case.User) /\ Truthy(test_case.Password)
       THEN [headers |-> base,
             auth |-> Pair(test_case.User, test_case.Password),
             test_case |-> test_case]
       ELSE IF Truthy(test_case.Authorization)
       THEN LET headers == DictSet(base, "Authorization", test_case.Authorization)
            IN [headers |-> headers,
                auth |-> None,
                test_case |-> IF own THEN [test_case EXCEPT !.Headers = headers]
                              ELSE test_case]
       ELSE [headers |-> base, auth |-> None, test_case |-> test_case]

\* prepare_headers_and_auth with "or" for the "and" of line 43
prepare_headers_and_auth_either(test_case) ==
    LET own == Truthy(test_case.Headers)
        base == IF own THEN test_case.Headers ELSE Dict({})
    IN IF Truthy(test_case.Authorization)
       THEN LET headers == DictSet(base, "Authorization", test_case.Authorization)
            IN [headers |-> headers,
                auth |-> None,
                test_case |-> IF own THEN [test_case EXCEPT !.Headers = headers]
                              ELSE test_case]
       ELSE IF Truthy(test_case.User) \/ Truthy(test_case.Password)
       THEN [headers |-> base,
             auth |-> Pair(test_case.User, test_case.Password),
             test_case |-> test_case]
       ELSE [headers |-> base, auth |-> None, test_case |-> test_case]

\* prepare_headers_and_auth.  headers is the test case's own Headers object
\* when that is truthy, so the item assignment of line 41 writes into the
\* test case; test_case is the test case after the call.
prepare_headers_and_auth(test_case) ==
    LET own == Truthy(test_case.Headers)
        base == IF own THEN test_case.Headers ELSE Dict({})
    IN IF Truthy(test_case.Authorization)
       THEN LET headers == DictSet(base, "Authorization", test_case.Authorization)
            IN [headers |-> headers,
                auth |-> None,
                test_case |-> IF own THEN [test_case EXCEPT !.Headers = headers]
                              ELSE test_case]
       ELSE IF Truthy(test_case.User) /\ Truthy(test_case.Password)
       THEN [headers |-> base,
             auth |-> Pair(test_case.User, test_case.Password),
             test_case |-> test_case]
       ELSE [headers |-> base, auth |-> None, test_case |-> test_case]

\* send_request_and_measure_time: elapsed is end_time - start_time.
\* exception is "" when the function returns.
send_request_and_measure_time(outcome, elapsed) ==
    LET r == send_request(outcome)
    IN IF r.raised
       THEN [exception |-> "Failed: API request failed",
             response |-> Unbound, duration |-> Unbound, response_size |-> Unbound]
       ELSE IF r.value.t # "Response"
       THEN [exception |-> "AttributeError",   \* len(response.text) on a dict
             response |-> Unbound, duration |-> Unbound, response_size |-> Unbound]
       ELSE [exception |-> "",
             response |-> r.value, duration |-> Num(elapsed),
             response_size |-> Num(Len(r.value.text))]

StatusCodeMessage(expected, got) ==
    Str(<<"Expected status code: ", StatusText(expected), ", Got: ", StatusText(got)>>)

ResponseMessage(expected, got) ==
    Str(<<"Expected response: ">> \o Format(expected) \o <<", Got: ">> \o Format(got))

ParseMessage ==
    Str(<<"Failed to parse response: ", "Expecting value">>)

\* check_response keeping the first failure: a body mismatch does not replace
\* the message of a status-code mismatch
check_response_first_wins(resp, test_case) ==
    LET first == IF resp.status_code = test_case.ExpectedStatusCode
                 THEN [status |-> "PASSED", error |-> None]
                 ELSE [status |-> "FAILED",
                       error |-> StatusCodeMessage(test_case.ExpectedStatusCode,
                                                   resp.status_code)]
        is_json == IsJsonContentType(resp.content_type)
    IN IF is_json /\ ~JsonParses(resp.text)
       THEN [status |-> "FAILED", error |-> ParseMessage]
       ELSE LET response_body == IF is_json THEN json_loads(resp.text)
                                 ELSE Str(resp.text)
            IN IF response_body # test_case.ExpectedResponse /\ first.status = "PASSED"
               THEN [status |-> "FAILED",
                     error |-> ResponseMessage(test_case.ExpectedResponse, response_body)]
               ELSE first

\* check_response with "except ValueError: pass": a body that does not parse
\* leaves the verdict of the status-code check
check_response_parse_ignored(resp, test_case) ==
    LET first == IF resp.status_code = test_case.ExpectedStatusCode
                 THEN [status |-> "PASSED", error |-> None]
                 ELSE [status |-> "FAILED",
                       error |-> StatusCodeMessage(test_case.ExpectedStatusCode,
                                                   resp.status_code)]
        is_json == IsJsonContentType(resp.content_type)
    IN IF is_json /\ ~JsonParses(resp.text)
       THEN first
       ELSE LET response_body == IF is_json THEN json_loads(resp.text)
                                 ELSE Str(resp.text)
            IN IF response_body # test_case.ExpectedResponse
               THEN [status |-> "FAILED",
                     error |-> ResponseMessage(test_case.ExpectedResponse, response_body)]
               ELSE first

\* check_response without the comparison of line 113: only the status code
\* and the parse decide
check_response_body_unchecked(resp, test_case) ==
    LET first == IF resp.status_code = test_case.ExpectedStatusCode
                 THEN [status |-> "PASSED", error |-> None]
                 ELSE [status |-> "FAILED",
                       error |-> StatusCodeMessage(test_case.ExpectedStatusCode,
                                                   resp.status_code)]
    IN IF IsJsonContentType(resp.content_type) /\ ~JsonParses(resp.text)
       THEN [status |-> "FAILED", error |-> ParseMessage]
       ELSE first

\* check_response with the verdict assigned anew after the body comparison
\* (a body that matches resets a status-code failure)
check_response_verdict_reset(resp, test_case) ==
    LET is_json == IsJsonContentType(resp.content_type)
    IN IF is_json /\ ~JsonParses(resp.text)
       THEN [status |-> "FAILED", error |-> ParseMessage]
       ELSE LET response_body == IF is_json THEN json_loads(resp.text)
                                 ELSE Str(resp.text)
            IN IF response_body # test_case.ExpectedResponse
               THEN [status |-> "FAILED",
                     error |-> ResponseMessage(test_case.ExpectedResponse, response_body)]
               ELSE [status |-> "PASSED", error |-> None]

\* check_response
check_response(resp, test_case) ==
    LET first == IF resp.status_code = test_case.ExpectedStatusCode
                 THEN [status |-> "PASSED", error |-> None]
                 ELSE [status |-> "FAILED",
                       error |-> StatusCodeMessage(test_case.ExpectedStatusCode,
                                                   resp.status_code)]
        is_json == IsJsonContentType(resp.content_type)
    IN IF is_json /\ ~JsonParses(resp.text)
       THEN [status |-> "FAILED", error |-> ParseMessage]
       ELSE LET response_body == IF is_json THEN json_loads(resp.text)
                                 ELSE Str(resp.text)
            IN IF response_body # test_case.ExpectedResponse
               THEN [status |-> "FAILED",
                     error |-> ResponseMessage(test_case.ExpectedResponse, response_body)]
               ELSE first

\* The result dict without the "if status != SKIPPED" guards of lines 171-173
Result_unguarded(test_case, status, error, resp, dur, size) ==
    [TestId |-> test_case.TestId,
     Status |-> status,
     Error |-> error,
     Endpoint |-> test_case.Endpoint,
     ExpectedStatusCode |-> test_case.ExpectedStatusCode,
     ActualStatusCode |-> IF resp = Unbound THEN Unbound ELSE Num(resp.status_code),
     Duration |-> dur,
     ResponseSize |-> size]

\* The result dict of lines 162-174
Result(test_case, status, error, resp, dur, size) ==
    [TestId |-> test_case.TestId,
     Status |-> status,
     Error |-> error,
     Endpoint |-> test_case.Endpoint,
     ExpectedStatusCode |-> test_case.ExpectedStatusCode,
     ActualStatusCode |-> IF status # "SKIPPED" THEN Num(resp.status_code) ELSE None,
     Duration |-> IF status # "SKIPPED" THEN dur ELSE None,
     ResponseSize |-> IF status # "SKIPPED" THEN size ELSE None]

\* The summary dict with the skipped cases counted under another status name
Summary_skipped_miscounted(data, rs, ds, sizes) ==
    [TotalTests |-> Len(data),
     PassedTests |-> CountStatus(rs, "PASSED"),
     FailedTests |-> CountStatus(rs, "FAILED"),
     SkippedTests |-> CountStatus(rs, "SKIP"),
     AvgDuration |-> IF ds # <<>> THEN [num |-> SumSeq(ds), den |-> Len(ds)]
                     ELSE [num |-> 0, den |-> 1],
     TotalResponseSize |-> SumSeq(sizes)]

\* The summary dict of lines 183-190; AvgDuration is kept as the fraction
\* num/den that the division of line 188 evaluates
Summary(data, rs, ds, sizes) ==
    [TotalTests |-> Len(data),
     PassedTests |-> CountStatus(rs, "PASSED"),
     FailedTests |-> CountStatus(rs, "FAILED"),
     SkippedTests |-> CountStatus(rs, "SKIPPED"),
     AvgDuration |-> IF ds # <<>> THEN [num |-> SumSeq(ds), den |-> Len(ds)]
                     ELSE [num |-> 0, den |-> 1],
     TotalResponseSize |-> SumSeq(sizes)]

-----------------------------------------------------------------------------
(* Inputs *)

Digit(i) ==
    CASE i = 1 -> "1" [] i = 2 -> "2" [] i = 3 -> "3" [] i = 4 -> "4" [] OTHER -> "n"

TestIdAt(i) == Str(<<"T", Digit(i)>>)

OkTrue == Dict({<<"ok", Bool(TRUE)>>})
XHeader == Dict({<<"X", Str(<<"1">>)>>})
Token == Str(<<"Bearer", "tok">>)
Blank == Str(<<>>)

\* The Authorization and Headers cells of a test case of a run
RunCredentials ==
    {[Authorization |-> Blank, Headers |-> XHeader],
     [Authorization |-> Token, Headers |-> XHeader],
     [Authorization |-> Token, Headers |-> Dict({})]}

\* The test cases of a run, as ExcelReader.load_data delivers them: an empty
\* cell is '' in a text column and {} in a Headers/ExpectedResponse column.
RunCases(i) ==
    {[TestId |-> TestIdAt(i),
      Run |-> run,
      Endpoint |-> "/items",
      Authorization |-> c.Authorization,
      User |-> Blank,
      Password |-> Blank,
      Headers |-> c.Headers,
      ExpectedStatusCode |-> 200,
      ExpectedResponse |-> OkTrue] : run \in {"Y", "N"}, c \in RunCredentials}

RunData ==
    UNION {{d \in [1..n -> UNION {RunCases(i) : i \in 1..n}] :
                \A i \in 1..n : d[i] \in RunCases(i)} : n \in 1..MaxCases}

\* The responses a server gives in a run
RunResponses ==
    {Response(200, "application/json", <<"{", "ok", ":", "true", "}">>),
     Response(404, "application/json", <<"{", "ok", ":", "true", "}">>),
     Response(200, "text/plain", <<"hello">>)}

\* The elapsed times time.time() measures, in ticks
Elapsed == {1, 2}

\* What requests.request does with one request
Outcomes ==
    {[kind |-> "response", response |-> r] : r \in RunResponses}
        \cup {[kind |-> "RequestException"], [kind |-> "Exception"]}

-----------------------------------------------------------------------------
(* tests/test_api.py: test_api *)

Init ==
    /\ test_data \in RunData
    /\ declared = test_data
    /\ pc = "init"
    /\ exception = ""
    /\ idx = 1
    /\ execution_id = Unbound
    /\ response = Unbound
    /\ duration = Unbound
    /\ response_size = Unbound
    /\ durations = <<>>
    /\ response_sizes = <<>>
    /\ results = <<>>
    /\ db_results = <<>>
    /\ db_summary = <<>>
    /\ summary = Unbound
    /\ sent = <<>>
    /\ fn_args = None
    /\ fn_ret = None
    /\ db_faults = {}    \* the failing inserts are drawn by InitStore
    /\ db = [test_results |-> <<>>, test_summary |-> <<>>]

\* DBManager.insert_test_execution: the new row id, or None when the insert fails
insert_test_execution(ok) == IF ok THEN Num(1) ELSE None

\* The row insert_test_result writes (db_manager.py lines 101-109)
ResultRow(id, test_result) ==
    [ExecutionId |-> id,
     TestId |-> test_result.TestId,
     Status |-> test_result.Status,
     Error |-> test_result.Error,
     Endpoint |-> test_result.Endpoint,
     ExpectedStatusCode |-> test_result.ExpectedStatusCode,
     ActualStatusCode |-> test_result.ActualStatusCode,
     Duration |-> test_result.Duration,
     ResponseSize |-> test_result.ResponseSize]

\* The row insert_test_summary writes (db_manager.py lines 125-129): the table
\* has no column for the skipped tests
SummaryRow(id, s) ==
    [ExecutionId |-> id,
     TotalTests |-> s.TotalTests,
     PassedTests |-> s.PassedTests,
     FailedTests |-> s.FailedTests,
     AvgDuration |-> s.AvgDuration,
     TotalResponseSize |-> s.TotalResponseSize]

\* insert_test_result without its try/except: the error of the store reaches
\* the caller
insert_test_result_propagates(rows, id, test_result, fails) ==
    IF fails THEN [raised |-> TRUE, rows |-> rows]
    ELSE [raised |-> FALSE, rows |-> Append(rows, ResultRow(id, test_result))]

\* DBManager.insert_test_result on the rows of test_results: when the store
\* fails the exception is printed, nothing is written and nothing is raised
insert_test_result(rows, id, test_result, fails) ==
    IF fails THEN [raised |-> FALSE, rows |-> rows]
    ELSE [raised |-> FALSE, rows |-> Append(rows, ResultRow(id, test_result))]

\* DBManager.insert_test_summary on the rows of test_summary, likewise
insert_test_summary(rows, id, s, fails) ==
    IF fails THEN [raised |-> FALSE, rows |-> rows]
    ELSE [raised |-> FALSE, rows |-> Append(rows, SummaryRow(id, s))]

\* Lines 133-145 without the test of execution_id (lines 140-141)
StartRun_unchecked ==
    /\ pc = "init"
    /\ \E ok \in BOOLEAN : execution_id' = insert_test_execution(ok)
    /\ pc' = "loop"
    /\ UNCHANGED <<test_data, declared, exception, idx, response, duration,
                   response_size, durations, response_sizes, results, db_results,
                   db_summary, summary, sent, fn_args, fn_ret,
                   db_faults, db>>

\* Lines 133-145
StartRun ==
    /\ pc = "init"
    /\ \E ok \in BOOLEAN :
         /\ execution_id' = insert_test_execution(ok)
         /\ IF ~Truthy(execution_id')
            THEN pc' = "raised" /\ exception' = "Failed: no execution"
            ELSE pc' = "loop" /\ exception' = exception
    /\ UNCHANGED <<test_data, declared, idx, response, duration, response_size,
                   durations, response_sizes, results, db_results, db_summary,
                   summary, sent, fn_args, fn_ret,
                   db_faults, db>>

\* The loop with the Run test after the dispatch: a request is sent for a
\* skipped case too
SkipCase_dispatches ==
    /\ pc = "loop"
    /\ idx <= Len(test_data)
    /\ test_data[idx].Run = "N"
    /\ LET test_case == test_data[idx]
           prep == prepare_headers_and_auth(test_case)
           result == Result(test_case, "SKIPPED", Str(<<"Test skipped (Run = N)">>),
                            response, duration, response_size)
           ins == insert_test_result(db.test_results, execution_id, result,
                                     idx \in db_faults)
       IN /\ sent' = Append(sent, [case |-> idx,
                                   Endpoint |-> test_case.Endpoint,
                                   headers |-> prep.headers,
                                   auth |-> prep.auth,
                                   outcome |-> "response"])
          /\ db_results' = Append(db_results, <<execution_id, result>>)
          /\ db' = [db EXCEPT !.test_results = ins.rows]
          /\ results' = Append(results, result)
          /\ idx' = idx + 1
    /\ UNCHANGED <<test_data, declared, pc, exception, execution_id, response,
                   duration, response_size, durations, response_sizes,
                   db_summary, summary, fn_args, fn_ret,
                   db_faults>>

\* The skip branch ending the iteration with "continue": the skipped case is
\* stored but never appended to results
SkipCase_continue ==
    /\ pc = "loop"
    /\ idx <= Len(test_data)
    /\ test_data[idx].Run = "N"
    /\ LET result == Result(test_data[idx], "SKIPPED",
                            Str(<<"Test skipped (Run = N)">>),
                            response, duration, response_size)
           ins == insert_test_result(db.test_results, execution_id, result,
                                     idx \in db_faults)
       IN /\ db_results' = Append(db_results, <<execution_id, result>>)
          /\ db' = [db EXCEPT !.test_results = ins.rows]
    /\ idx' = idx + 1
    /\ UNCHANGED <<test_data, declared, pc, exception, execution_id, response,
                   duration, response_size, durations, response_sizes, results,
                   db_summary, summary, sent, fn_args, fn_ret,
                   db_faults>>

\* One iteration of the loop for a test case with Run == "N" (lines 148-150,
\* 162-180).  duration and response_size are read at lines 178-179 although
\* this branch never assigns them.
SkipCase ==
    /\ pc = "loop"
    /\ idx <= Len(test_data)
    /\ test_data[idx].Run = "N"
    /\ LET test_case == test_data[idx]
           result == Result(test_case, "SKIPPED", Str(<<"Test skipped (Run = N)">>),
                            response, duration, response_size)
           ins == insert_test_result(db.test_results, execution_id, result,
                                     idx \in db_faults)
       IN /\ db_results' = Append(db_results, <<execution_id, result>>)
          /\ db' = [db EXCEPT !.test_results = ins.rows]
          /\ IF ins.raised
             THEN /\ pc' = "raised"
                  /\ exception' = "sqlite3.Error"
                  /\ UNCHANGED <<idx, durations, response_sizes, results>>
             ELSE IF duration = Unbound
             THEN /\ pc' = "raised"
                  /\ exception' = "UnboundLocalError"
                  /\ UNCHANGED <<idx, durations, response_sizes, results>>
             ELSE /\ durations' = Append(durations, duration.n)
                  /\ response_sizes' = Append(response_sizes, response_size.n)
                  /\ results' = Append(results, result)
                  /\ idx' = idx + 1
                  /\ UNCHANGED <<pc, exception>>
    /\ UNCHANGED <<test_data, declared, execution_id, response, duration,
                   response_size, db_summary, summary, sent, fn_args, fn_ret,
                   db_faults>>

\* One iteration of the loop for a test case that is run (lines 151-180)
ExecuteCase ==
    /\ pc = "loop"
    /\ idx <= Len(test_data)
    /\ test_data[idx].Run # "N"
    /\ \E outcome \in Outcomes, elapsed \in Elapsed :
         LET prep == prepare_headers_and_auth(test_data[idx])
             test_case == prep.test_case
             m == send_request_and_measure_time(outcome, elapsed)
         IN /\ test_data' = [test_data EXCEPT ![idx] = test_case]
            /\ sent' = Append(sent, [case |-> idx,
                                     Endpoint |-> test_case.Endpoint,
                                     headers |-> prep.headers,
                                     auth |-> prep.auth,
                                     outcome |-> outcome.kind])
            /\ IF m.exception # ""
               THEN /\ pc' = "raised"
                    /\ exception' = m.exception
                    /\ UNCHANGED <<idx, response, duration, response_size, durations,
                                   response_sizes, results, db_results, db>>
               ELSE LET chk == check_response(m.response, test_case)
                        result == Result(test_case, chk.status, chk.error,
                                         m.response, m.duration, m.response_size)
                        ins == insert_test_result(db.test_results, execution_id,
                                                  result, idx \in db_faults)
                    IN /\ response' = m.response
                       /\ duration' = m.duration
                       /\ response_size' = m.response_size
                       /\ db_results' = Append(db_results, <<execution_id, result>>)
                       /\ db' = [db EXCEPT !.test_results = ins.rows]
                       /\ IF ins.raised
                          THEN /\ pc' = "raised"
                               /\ exception' = "sqlite3.Error"
                               /\ UNCHANGED <<idx, durations, response_sizes, results>>
                          ELSE /\ durations' = Append(durations, m.duration.n)
                               /\ response_sizes' = Append(response_sizes,
                                                           m.response_size.n)
                               /\ results' = Append(results, result)
                               /\ idx' = idx + 1
                               /\ UNCHANGED <<pc, exception>>
    /\ UNCHANGED <<declared, execution_id, db_summary, summary, fn_args, fn_ret,
                   db_faults>>

\* The summary handed to the store when the last case is reached, before the
\* iteration of that case has stored its record
Aggregate_early ==
    /\ pc = "loop"
    /\ idx >= Len(test_data)
    /\ summary' = Summary(test_data, results, durations, response_sizes)
    /\ db_summary' = Append(db_summary, <<execution_id, summary'>>)
    /\ LET ins == insert_test_summary(db.test_summary, execution_id, summary',
                                      0 \in db_faults)
       IN /\ db' = [db EXCEPT !.test_summary = ins.rows]
          /\ IF ins.raised
             THEN pc' = "raised" /\ exception' = "sqlite3.Error"
             ELSE pc' = "aggregated" /\ exception' = exception
    /\ UNCHANGED <<test_data, declared, idx, execution_id, response,
                   duration, response_size, durations, response_sizes, results,
                   db_results, sent, fn_args, fn_ret,
                   db_faults>>

\* Lines 182-201: the summary and its hand-over to the store
Aggregate ==
    /\ pc = "loop"
    /\ idx > Len(test_data)
    /\ summary' = Summary(test_data, results, durations, response_sizes)
    /\ db_summary' = Append(db_summary, <<execution_id, summary'>>)
    /\ LET ins == insert_test_summary(db.test_summary, execution_id, summary',
                                      0 \in db_faults)
       IN /\ db' = [db EXCEPT !.test_summary = ins.rows]
          /\ IF ins.raised
             THEN pc' = "raised" /\ exception' = "sqlite3.Error"
             ELSE pc' = "aggregated" /\ exception' = exception
    /\ UNCHANGED <<test_data, declared, idx, execution_id, response,
                   duration, response_size, durations, response_sizes, results,
                   db_results, sent, fn_args, fn_ret,
                   db_faults>>

\* Line 204: update_results(results, execution_name) is called with two
\* arguments; ExcelWriter.update_results takes one (excel_writer.py line 155)
UpdateExcel ==
    /\ pc = "aggregated"
    /\ pc' = "raised"
    /\ exception' = "TypeError"
    /\ UNCHANGED <<test_data, declared, idx, execution_id, response, duration,
                   response_size, durations, response_sizes, results, db_results,
                   db_summary, summary, sent, fn_args, fn_ret,
                   db_faults, db>>

Next == StartRun \/ SkipCase \/ ExecuteCase \/ Aggregate \/ UpdateExcel

Spec == Init /\ [][Next]_vars

-----------------------------------------------------------------------------
(* check_response applied on its own to a response and a test case *)

OkFalse == Dict({<<"ok", Bool(FALSE)>>})

CheckTexts ==
    {<<"null">>,
     <<"{", "}">>,
     <<"{", "ok", ":", "true", "}">>,
     <<"{", "ok", ":", "false", "}">>,
     <<"hello">>,
     <<>>,
     <<"{", "ok">>}

CheckResponses ==
    {Response(code, ctype, text) :
        code \in {200, 404, 500},
        ctype \in {"application/json", "application/json; charset=utf-8",
                   "text/plain", ""},
        text \in CheckTexts}

\* ExpectedResponse is Optional[dict]: None when the APIData is built directly
CheckCases ==
    [TestId : {TestIdAt(1)},
     Run : {"Y"},
     Endpoint : {"/items"},
     Authorization : {Blank},
     User : {Blank},
     Password : {Blank},
     Headers : {Dict({})},
     ExpectedStatusCode : {200, 404},
     ExpectedResponse : {None, Dict({}), OkTrue, OkFalse}]

InitCheck ==
    /\ test_data = <<>>
    /\ declared = <<>>
    /\ pc = "call"
    /\ exception = ""
    /\ idx = 1
    /\ execution_id = Unbound
    /\ response = Unbound
    /\ duration = Unbound
    /\ response_size = Unbound
    /\ durations = <<>>
    /\ response_sizes = <<>>
    /\ results = <<>>
    /\ db_results = <<>>
    /\ db_summary = <<>>
    /\ summary = Unbound
    /\ sent = <<>>
    /\ fn_args \in [response : CheckResponses, test_case : CheckCases]
    /\ fn_ret = None
    /\ db_faults = {}
    /\ db = [test_results |-> <<>>, test_summary |-> <<>>]

CallCheckResponse ==
    /\ pc = "call"
    /\ fn_ret' = check_response(fn_args.response, fn_args.test_case)
    /\ pc' = "returned"
    /\ UNCHANGED <<test_data, declared, exception, idx, execution_id, response,
                   duration, response_size, durations, response_sizes, results,
                   db_results, db_summary, summary, sent, fn_args,
                   db_faults, db>>

NextCheck == CallCheckResponse

SpecCheck == InitCheck /\ [][NextCheck]_vars

-----------------------------------------------------------------------------
(* prepare_headers_and_auth applied on its own to a test case *)

OldAuthorization == Str(<<"Basic", "old">>)

\* Headers is Optional[dict]; a declared mapping may itself hold an
\* Authorization entry
CredentialHeaders ==
    {None,
     Dict({}),
     XHeader,
     Dict({<<"Authorization", OldAuthorization>>}),
     Dict({<<"X", Str(<<"1">>)>>, <<"Authorization", OldAuthorization>>})}

\* Test cases built directly as APIData: an optional field is None, '' or set
CredentialCases(runs) ==
    [TestId : {TestIdAt(1)},
     Run : runs,
     Endpoint : {"/items"},
     Authorization : {None, Blank, Token},
     User : {None, Blank, Str(<<"user">>)},
     Password : {None, Blank, Str(<<"secret">>)},
     Headers : CredentialHeaders,
     ExpectedStatusCode : {200},
     ExpectedResponse : {OkTrue}]

InitPrepare ==
    /\ test_data = <<>>
    /\ declared = <<>>
    /\ pc = "call"
    /\ exception = ""
    /\ idx = 1
    /\ execution_id = Unbound
    /\ response = Unbound
    /\ duration = Unbound
    /\ response_size = Unbound
    /\ durations = <<>>
    /\ response_sizes = <<>>
    /\ results = <<>>
    /\ db_results = <<>>
    /\ db_summary = <<>>
    /\ summary = Unbound
    /\ sent = <<>>
    /\ fn_args \in [test_case : CredentialCases({"Y"})]
    /\ fn_ret = None
    /\ db_faults = {}
    /\ db = [test_results |-> <<>>, test_summary |-> <<>>]

CallPrepare ==
    /\ pc = "call"
    /\ fn_ret' = prepare_headers_and_auth(fn_args.test_case)
    /\ pc' = "returned"
    /\ UNCHANGED <<test_data, declared, exception, idx, execution_id, response,
                   duration, response_size, durations, response_sizes, results,
                   db_results, db_summary, summary, sent, fn_args,
                   db_faults, db>>

NextPrepare == CallPrepare

SpecPrepare == InitPrepare /\ [][NextPrepare]_vars

-----------------------------------------------------------------------------
(* test_api over a single test case with any credentials *)

InitOneCase ==
    /\ test_data \in {<<tc>> : tc \in CredentialCases({"Y", "N"})}
    /\ declared = test_data
    /\ pc = "init"
    /\ exception = ""
    /\ idx = 1
    /\ execution_id = Unbound
    /\ response = Unbound
    /\ duration = Unbound
    /\ response_size = Unbound
    /\ durations = <<>>
    /\ response_sizes = <<>>
    /\ results = <<>>
    /\ db_results = <<>>
    /\ db_summary = <<>>
    /\ summary = Unbound
    /\ sent = <<>>
    /\ fn_args = None
    /\ fn_ret = None
    /\ db_faults = {}
    /\ db = [test_results |-> <<>>, test_summary |-> <<>>]

SpecOneCase == InitOneCase /\ [][Next]_vars

-----------------------------------------------------------------------------
(* core/excel_reader.py: ExcelReader.load_data applied to a sheet *)

MaxRows == 3

\* An empty cell as pandas.read_excel delivers it
NaN == [t |-> "nan"]

\* df.fillna(''), on one cell
fillna(v) == IF v = NaN THEN Blank ELSE v

\* str applied to a TestId cell (a number or a text)
str(v) == IF v.t = "num" THEN Str(<<Digit(v.n)>>) ELSE v

\* _convert_to_dict: a text other than '' and '{}' goes through json.loads,
\* whatever json.loads returns; a text it rejects, and any other value, give {}
_convert_to_dict(value) ==
    IF value.t = "str" /\ value.s # <<>>
    THEN IF value.s # <<"{", "}">>
         THEN IF JsonParses(value.s) THEN json_loads(value.s) ELSE Dict({})
         ELSE Dict({})
    ELSE Dict({})

\* Lines 81-92: one row of the sheet as the record handed to APIData
Record(row) ==
    [TestId |-> str(fillna(row.TestId)),
     Run |-> fillna(row.Run),
     Endpoint |-> fillna(row.Endpoint),
     Authorization |-> fillna(row.Authorization),
     User |-> fillna(row.User),
     Password |-> fillna(row.Password),
     Headers |-> _convert_to_dict(fillna(row.Headers)),
     ExpectedStatusCode |-> fillna(row.ExpectedStatusCode),
     ExpectedResponse |-> _convert_to_dict(fillna(row.ExpectedResponse))]

\* The integer pydantic reads from a value of an int field: a number, or the
\* text of a number; None when the value is no integer
IntOf(v) ==
    CASE v.t = "num" -> v
      [] v = Str(<<"200">>) -> Num(200)
      [] v = Str(<<"404">>) -> Num(404)
      [] OTHER -> None

\* A text of one token as the plain string the run compares and copies
Text(v) == IF v.s = <<>> THEN "" ELSE v.s[1]

\* APIData(**record): the required fields are texts, ExpectedStatusCode is an
\* integer, Headers and ExpectedResponse are a dict or None.  A record of
\* another shape raises ValidationError (valid is FALSE).
APIData(record) ==
    IF /\ record.TestId.t = "str"
       /\ record.Run.t = "str"
       /\ record.Endpoint.t = "str"
       /\ record.Authorization.t \in {"str", "None"}
       /\ record.User.t \in {"str", "None"}
       /\ record.Password.t \in {"str", "None"}
       /\ record.Headers.t \in {"dict", "None"}
       /\ IntOf(record.ExpectedStatusCode) # None
       /\ record.ExpectedResponse.t \in {"dict", "None"}
    THEN [valid |-> TRUE,
          value |-> [TestId |-> record.TestId,
                     Run |-> Text(record.Run),
                     Endpoint |-> Text(record.Endpoint),
                     Authorization |-> record.Authorization,
                     User |-> record.User,
                     Password |-> record.Password,
                     Headers |-> record.Headers,
                     ExpectedStatusCode |-> IntOf(record.ExpectedStatusCode).n,
                     ExpectedResponse |-> record.ExpectedResponse]]
    ELSE [valid |-> FALSE]

\* _validate: True when APIData(**record) raises nothing
_validate(record) == APIData(record).valid

\* [f(x) for x in s]
RECURSIVE MapAPIData(_)
MapAPIData(records) ==
    IF records = <<>> THEN <<>>
    ELSE <<APIData(Head(records)).value>> \o MapAPIData(Tail(records))

\* load_data without the "if _validate(record)" of line 95: the first record
\* APIData rejects raises inside the try block and the list is empty
load_data_unvalidated(sheet) ==
    IF sheet.read # "sheet" THEN <<>>
    ELSE LET records == [i \in 1..Len(sheet.rows) |-> Record(sheet.rows[i])]
         IN IF \E i \in 1..Len(records) : ~APIData(records[i]).valid
            THEN <<>>
            ELSE MapAPIData(records)

\* ExcelReader.load_data: sheet.read is what pandas.read_excel did with the
\* file; any exception inside the try block gives the empty list
load_data(sheet) ==
    IF sheet.read # "sheet" THEN <<>>
    ELSE LET records == [i \in 1..Len(sheet.rows) |-> Record(sheet.rows[i])]
         IN MapAPIData(SelectSeq(records, _validate))

\* The rows of a sheet: the cells that decide the shape vary, the other cells
\* are a GET of /items without credentials
SheetRows ==
    [TestId : {Num(1), Str(<<"T", "2">>)},
     Run : {Str(<<"Y">>)},
     Endpoint : {Str(<<"/items">>)},
     Authorization : {NaN},
     User : {NaN},
     Password : {NaN},
     Headers : {NaN, Str(<<"[", "]">>), Str(<<"{", "X">>)},
     ExpectedStatusCode : {Num(200), Str(<<"404">>), NaN},
     ExpectedResponse : {Str(<<"{", "ok", ":", "true", "}">>)}]

Sheets ==
    [read : {"sheet", "FileNotFoundError"},
     rows : UNION {[1..n -> SheetRows] : n \in 0..MaxRows}]

InitLoad ==
    /\ test_data = <<>>
    /\ declared = <<>>
    /\ pc = "call"
    /\ exception = ""
    /\ idx = 1
    /\ execution_id = Unbound
    /\ response = Unbound
    /\ duration = Unbound
    /\ response_size = Unbound
    /\ durations = <<>>
    /\ response_sizes = <<>>
    /\ results = <<>>
    /\ db_results = <<>>
    /\ db_summary = <<>>
    /\ summary = Unbound
    /\ sent = <<>>
    /\ fn_args \in [sheet : Sheets]
    /\ fn_ret = None
    /\ db_faults = {}
    /\ db = [test_results |-> <<>>, test_summary |-> <<>>]

CallLoadData ==
    /\ pc = "call"
    /\ fn_ret' = load_data(fn_args.sheet)
    /\ pc' = "returned"
    /\ UNCHANGED <<test_data, declared, exception, idx, execution_id, response,
                   duration, response_size, durations, response_sizes, results,
                   db_results, db_summary, summary, sent, fn_args,
                   db_faults, db>>

NextLoad == CallLoadData

SpecLoad == InitLoad /\ [][NextLoad]_vars

-----------------------------------------------------------------------------
(* test_api over a store that fails on some of its inserts *)

MaxStoreCases == 2

\* Test cases without credentials, run or skipped
StoreData ==
    UNION {{d \in [1..n -> UNION {RunCases(i) : i \in 1..n}] :
                \A i \in 1..n : d[i] \in RunCases(i) /\ d[i].Authorization = Blank}
           : n \in 1..MaxStoreCases}

\* sqlite3 raises inside insert_test_result for the calls 1, 2, ... of
\* db_faults and inside insert_test_summary when 0 is in db_faults
InitStore ==
    /\ test_data \in StoreData
    /\ declared = test_data
    /\ pc = "init"
    /\ exception = ""
    /\ idx = 1
    /\ execution_id = Unbound
    /\ response = Unbound
    /\ duration = Unbound
    /\ response_size = Unbound
    /\ durations = <<>>
    /\ response_sizes = <<>>
    /\ results = <<>>
    /\ db_results = <<>>
    /\ db_summary = <<>>
    /\ summary = Unbound
    /\ sent = <<>>
    /\ fn_args = None
    /\ fn_ret = None
    /\ db_faults \in SUBSET (0..Len(test_data))
    /\ db = [test_results |-> <<>>, test_summary |-> <<>>]

SpecStore == InitStore /\ [][Next]_vars

-----------------------------------------------------------------------------
(* web/app.py: the callback update_report applied on its own *)

MaxStoredRows == 2

\* The rows of test_results with the given ExecutionId, in the order stored
RECURSIVE RowsOf(_, _)
RowsOf(rows, id) ==
    IF rows = <<>> THEN <<>>
    ELSE (IF Head(rows).ExecutionId = id THEN <<Head(rows)>> ELSE <<>>)
            \o RowsOf(Tail(rows), id)

\* fetch_test_data: the rows of the execution as a frame; when the query
\* raises, pd.DataFrame(), a frame without rows and without columns
fetch_test_data(store, exec_id) ==
    IF store.read # "rows"
    THEN [columns |-> FALSE, rows |-> <<>>]
    ELSE [columns |-> TRUE, rows |-> RowsOf(store.rows, exec_id.n)]

\* len(df_results[df_results['Status'] == status])
CountRows(rows, status) ==
    Cardinality({i \in 1..Len(rows) : rows[i].Status = status})

\* The html.Div of lines 359-391 for the selected row
TestDetails(row) == [TestId |-> row.TestId, Status |-> row.Status]

\* What update_report returns: the four counters, the data of the table, the
\* state of the modal and its content (the options of the filter, the average
\* duration and the figures are left out)
Returned(total, passed, failed, skipped, table, open, details) ==
    [raised |-> FALSE, exception |-> "",
     total_tests |-> total, passed_tests |-> passed, failed_tests |-> failed,
     skipped_tests |-> skipped, table_data |-> table,
     is_open |-> open, test_details |-> details]

Raised(e) == [raised |-> TRUE, exception |-> e]

\* update_report (lines 248-404); exec_id is its argument execution_id, store
\* the database it reads.  selected_rows holds 0-based positions in
\* the table; df_results.iloc[n] raises IndexError when the frame has no row
\* n, df_results['Status'] raises KeyError on a frame without columns.
update_report(exec_id, selected_rows, close_modal_clicks, table_data, is_open, store) ==
    IF Truthy(exec_id)
    THEN LET df_results == fetch_test_data(store, exec_id)
             rows == df_results.rows
             table == [i \in 1..Len(rows) |->
                          [TestId |-> rows[i].TestId, Status |-> rows[i].Status]]
         IN IF ~df_results.columns THEN Raised("KeyError")
            ELSE IF selected_rows # <<>>
            THEN IF selected_rows[1] >= Len(rows) THEN Raised("IndexError")
                 ELSE IF ~is_open
                 THEN Returned(Len(rows), CountRows(rows, "PASSED"),
                               CountRows(rows, "FAILED"), CountRows(rows, "SKIPPED"),
                               table, TRUE, TestDetails(rows[selected_rows[1] + 1]))
                 ELSE Returned(Len(rows), CountRows(rows, "PASSED"),
                               CountRows(rows, "FAILED"), CountRows(rows, "SKIPPED"),
                               table, FALSE, None)
            ELSE Returned(Len(rows), CountRows(rows, "PASSED"),
                          CountRows(rows, "FAILED"), CountRows(rows, "SKIPPED"),
                          table, FALSE, None)
    ELSE Returned(0, 0, 0, 0, <<>>, FALSE, None)

\* The table test_results as the runs left it: the rows of the executions 1
\* and 2, or a database that cannot be read
Stores ==
    [read : {"rows", "OperationalError"},
     rows : UNION {{r \in [1..n -> [ExecutionId : {1, 2},
                                    TestId : {TestIdAt(i) : i \in 1..n},
                                    Status : {"PASSED", "FAILED", "SKIPPED"}]] :
                        \A i \in 1..n : r[i].TestId = TestIdAt(i)}
                   : n \in 1..MaxStoredRows}]

\* The inputs and states of the callback: the value of the filter is None or
\* an execution that has rows; the table keeps its selected row when its data
\* changes, so the selected position is any position a table has had
ReportInputs ==
    {a \in [execution_id : {None, Num(1), Num(2)},
            selected_rows : {<<>>} \cup {<<n>> : n \in 0..MaxStoredRows - 1},
            close_modal_clicks : {None, Num(1)},
            table_data : {<<>>},
            is_open : BOOLEAN,
            store : Stores] :
        a.execution_id # None =>
            \E i \in 1..Len(a.store.rows) :
                a.store.rows[i].ExecutionId = a.execution_id.n}

InitReport ==
    /\ test_data = <<>>
    /\ declared = <<>>
    /\ pc = "call"
    /\ exception = ""
    /\ idx = 1
    /\ execution_id = Unbound
    /\ response = Unbound
    /\ duration = Unbound
    /\ response_size = Unbound
    /\ durations = <<>>
    /\ response_sizes = <<>>
    /\ results = <<>>
    /\ db_results = <<>>
    /\ db_summary = <<>>
    /\ summary = Unbound
    /\ sent = <<>>
    /\ fn_args \in ReportInputs
    /\ fn_ret = None
    /\ db_faults = {}
    /\ db = [test_results |-> <<>>, test_summary |-> <<>>]

CallUpdateReport ==
    /\ pc = "call"
    /\ fn_ret' = update_report(fn_args.execution_id, fn_args.selected_rows,
                               fn_args.close_modal_clicks, fn_args.table_data,
                               fn_args.is_open, fn_args.store)
    /\ pc' = "returned"
    /\ UNCHANGED <<test_data, declared, exception, idx, execution_id, response,
                   duration, response_size, durations, response_sizes, results,
                   db_results, db_summary, summary, sent, fn_args,
                   db_faults, db>>

NextReport == CallUpdateReport

SpecReport == InitReport /\ [][NextReport]_vars

-----------------------------------------------------------------------------
(* Properties *)

SkipMessage == Str(<<"Test skipped (Run = N)">>)

HasToken(msg, tok) ==
    /\ msg.t = "str"
    /\ \E j \in 1..Len(msg.s) : msg.s[j] = tok

\* The loop indexes of the executed (not skipped) records of rs
Executed(rs) == {i \in 1..Len(rs) : rs[i].Status # "SKIPPED"}

RECURSIVE SumOver(_, _)
SumOver(f, S) ==
    IF S = {} THEN 0
    ELSE LET i == CHOOSE j \in S : TRUE IN f[i] + SumOver(f, S \ {i})

\* C1: a test case whose network call cannot complete (requests raises a
\* RequestException) gets one result with status FAILED whose error carries the
\* transport error text, and the run is not ended by that failure.
C1_TransportFailureRecovered ==
    \A k \in 1..Len(sent) :
        sent[k].outcome = "RequestException" =>
            /\ exception # "AttributeError"
            /\ Len(results) >= sent[k].case
            /\ results[sent[k].case].Status = "FAILED"
            /\ HasToken(results[sent[k].case].Error, "transport")

\* C2: a run that has its identifier and whose dispatches all returned a
\* response is never ended before the summary is computed, whatever the mix and
\* position of skipped and executed cases.
C2_RunReachesAggregation ==
    (/\ pc = "raised"
     /\ execution_id.t = "num"
     /\ \A k \in 1..Len(sent) : sent[k].outcome = "response")
        => summary # Unbound

\* C3: the result record produced for a test case with Run == "N", at any
\* position of the run, has status SKIPPED, error "Test skipped (Run = N)" and
\* ActualStatusCode, Duration and ResponseSize None.
C3_SkippedRecord ==
    /\ \A k \in 1..Len(db_results) :
          declared[k].Run = "N" =>
             LET r == db_results[k][2]
             IN /\ r.Status = "SKIPPED"
                /\ r.Error = SkipMessage
                /\ r.ActualStatusCode = None
                /\ r.Duration = None
                /\ r.ResponseSize = None
    /\ \A k \in 1..Len(results) :
          declared[k].Run = "N" =>
             /\ results[k].Status = "SKIPPED"
             /\ results[k].Error = SkipMessage
             /\ results[k].ActualStatusCode = None
             /\ results[k].Duration = None
             /\ results[k].ResponseSize = None

\* C3 witness: a skipped case that follows an executed one has been recorded
C3_Witness ==
    /\ Len(results) >= 2
    /\ results[1].Status # "SKIPPED"
    /\ results[2].Status = "SKIPPED"
    /\ response # Unbound
    /\ Len(db_results) >= 2

\* C4: the summary's average duration is the mean of the durations of the
\* executed cases only, and 0 when no case was executed.
C4_AvgOverExecutedOnly ==
    summary # Unbound =>
        LET ex == Executed(results)
            total == SumOver([i \in ex |-> results[i].Duration.n], ex)
        IN IF ex = {}
           THEN summary.AvgDuration.num = 0
           ELSE summary.AvgDuration.num * Cardinality(ex)
                    = total * summary.AvgDuration.den

\* C5: the summary's total response size is the sum of the response sizes of
\* the executed cases; a skipped case contributes 0.
C5_TotalSizeOverExecutedOnly ==
    summary # Unbound =>
        LET ex == Executed(results)
        IN summary.TotalResponseSize
               = SumOver([i \in ex |-> results[i].ResponseSize.n], ex)

\* C6: when the actual status code equals ExpectedStatusCode and
\* ExpectedResponse is None, check_response returns PASSED whatever the body
\* is (stated here for the bodies that parse; a body that does not parse is
\* FAILED by the parse check).
C6_PassedWithoutExpectedResponse ==
    (/\ pc = "returned"
     /\ fn_args.response.status_code = fn_args.test_case.ExpectedStatusCode
     /\ fn_args.test_case.ExpectedResponse = None
     /\ IsJsonContentType(fn_args.response.content_type)
            => JsonParses(fn_args.response.text))
        => fn_ret.status = "PASSED"

\* The body of the response as check_response compares it (lines 111-112)
BodyMatches(resp, test_case) ==
    /\ IsJsonContentType(resp.content_type) => JsonParses(resp.text)
    /\ (IF IsJsonContentType(resp.content_type) THEN json_loads(resp.text)
        ELSE Str(resp.text)) = test_case.ExpectedResponse

HasBothCodes(msg, test_case, resp) ==
    /\ HasToken(msg, StatusText(test_case.ExpectedStatusCode))
    /\ HasToken(msg, StatusText(resp.status_code))

\* C7 as stated: when the actual status code differs from ExpectedStatusCode,
\* check_response returns FAILED and an error message that contains both
\* codes, whatever the body and ExpectedResponse are.
C7_Original ==
    (/\ pc = "returned"
     /\ fn_args.response.status_code # fn_args.test_case.ExpectedStatusCode)
        => /\ fn_ret.status = "FAILED"
           /\ HasBothCodes(fn_ret.error, fn_args.test_case, fn_args.response)

\* C7 amended: when the actual status code differs from ExpectedStatusCode,
\* check_response returns FAILED whatever the body and ExpectedResponse are,
\* and the error message contains both codes when no later check fails (the
\* body parses and equals ExpectedResponse).
C7_FailedOnStatusMismatch ==
    (/\ pc = "returned"
     /\ fn_args.response.status_code # fn_args.test_case.ExpectedStatusCode)
        => /\ fn_ret.status = "FAILED"
           /\ BodyMatches(fn_args.response, fn_args.test_case)
                 => HasBothCodes(fn_ret.error, fn_args.test_case, fn_args.response)

\* C7 witness: a status-code mismatch with a matching body has been classified
C7_Witness ==
    /\ pc = "returned"
    /\ fn_args.response.status_code = 404
    /\ fn_args.test_case.ExpectedStatusCode = 200
    /\ BodyMatches(fn_args.response, fn_args.test_case)
    /\ fn_ret = [status |-> "FAILED", error |-> StatusCodeMessage(200, 404)]

\* C8: in every run that reaches aggregation TotalTests is PassedTests +
\* FailedTests + SkippedTests and every count is a non-negative integer.
C8_SummaryReconciles ==
    summary # Unbound =>
        /\ summary.TotalTests
               = summary.PassedTests + summary.FailedTests + summary.SkippedTests
        /\ summary.TotalTests \in Nat
        /\ summary.PassedTests \in Nat
        /\ summary.FailedTests \in Nat
        /\ summary.SkippedTests \in Nat

\* C8 witness: a summary of one passed, one failed and one skipped case
C8_Witness ==
    /\ summary # Unbound
    /\ summary.PassedTests = 1
    /\ summary.FailedTests = 1
    /\ summary.SkippedTests = 1
    /\ summary.TotalTests = 3

\* C9: after a run over n test cases has completed its loop, results has
\* exactly n records, the i-th carries the id of the i-th declared test case,
\* and its status is one of PASSED, FAILED, SKIPPED.
C9_NoCaseDroppedOrReordered ==
    summary # Unbound =>
        /\ Len(results) = Len(declared)
        /\ \A i \in 1..Len(results) :
              /\ results[i].TestId = declared[i].TestId
              /\ results[i].Status \in {"PASSED", "FAILED", "SKIPPED"}

\* C9 witness: a completed run of at least two cases, one of them skipped
C9_Witness ==
    /\ summary # Unbound
    /\ Len(results) >= 2
    /\ \E i \in 1..Len(results) : results[i].Status = "SKIPPED"
    /\ \E i \in 1..Len(results) : results[i].Status = "PASSED"

\* C10: no step of the run changes a field of a test case; in particular its
\* declared Headers are the same before and after the case is processed.
C10_TestCaseImmutable ==
    test_data = declared

\* C11: when insert_test_execution yields no identifier the run ends as a
\* failure before any test case is processed: no request is dispatched, no
\* result record is handed to the store and no summary is produced.
C11_NoExecutionAbortsRun ==
    execution_id = None =>
        /\ pc = "raised"
        /\ exception = "Failed: no execution"
        /\ idx = 1
        /\ sent = <<>>
        /\ results = <<>>
        /\ db_results = <<>>
        /\ db_summary = <<>>
        /\ summary = Unbound

\* C11 witness: the run has been ended for want of an identifier
C11_Witness ==
    /\ execution_id = None
    /\ pc = "raised"
    /\ exception = "Failed: no execution"

\* The body of the response as check_response compares it, when it parses
ResponseBody(resp) ==
    IF IsJsonContentType(resp.content_type) THEN json_loads(resp.text)
    ELSE Str(resp.text)

BodyParses(resp) ==
    IsJsonContentType(resp.content_type) => JsonParses(resp.text)

\* C12: when the status-code check and the body check both fail,
\* check_response returns FAILED with only the body-mismatch message
\* "Expected response: {expected}, Got: {actual}": the message of the last
\* failing check, never a union with the status-code message.
C12_BodyMessageSupersedes ==
    (/\ pc = "returned"
     /\ fn_args.response.status_code # fn_args.test_case.ExpectedStatusCode
     /\ fn_args.test_case.ExpectedResponse # None
     /\ BodyParses(fn_args.response)
     /\ ResponseBody(fn_args.response) # fn_args.test_case.ExpectedResponse)
        => /\ fn_ret.status = "FAILED"
           /\ fn_ret.error.t = "str"
           /\ fn_ret.error.s
                 = <<"Expected response: ">>
                       \o Format(fn_args.test_case.ExpectedResponse)
                       \o <<", Got: ">>
                       \o Format(ResponseBody(fn_args.response))
           /\ ~HasToken(fn_ret.error, "Expected status code: ")

\* C12 witness: a 404 with body {"ok": false} classified against 200 and
\* {"ok": true}
C12_Witness ==
    /\ pc = "returned"
    /\ fn_args.response.status_code = 404
    /\ fn_args.test_case.ExpectedStatusCode = 200
    /\ fn_args.test_case.ExpectedResponse = OkTrue
    /\ BodyParses(fn_args.response)
    /\ ResponseBody(fn_args.response) = OkFalse
    /\ fn_ret.status = "FAILED"

\* C13: when the content type says JSON and the body does not parse,
\* check_response returns FAILED with a message starting "Failed to parse
\* response: ", whether or not the status code matched.
C13_ParseFailureSupersedes ==
    (/\ pc = "returned"
     /\ IsJsonContentType(fn_args.response.content_type)
     /\ ~JsonParses(fn_args.response.text))
        => /\ fn_ret.status = "FAILED"
           /\ fn_ret.error.t = "str"
           /\ Len(fn_ret.error.s) >= 1
           /\ fn_ret.error.s[1] = "Failed to parse response: "
           /\ ~HasToken(fn_ret.error, "Expected status code: ")

\* C13 witness: a malformed JSON body with a status-code mismatch classified
C13_Witness ==
    /\ pc = "returned"
    /\ fn_args.response.content_type = "application/json"
    /\ fn_args.response.text = <<"{", "ok">>
    /\ fn_args.response.status_code # fn_args.test_case.ExpectedStatusCode
    /\ fn_ret.status = "FAILED"

\* C14: when the actual status code equals ExpectedStatusCode, ExpectedResponse
\* is set and the body is not equal to it, check_response returns FAILED with
\* the message "Expected response: {expected}, Got: {actual}".
C14_BodyCheckFailsAlone ==
    (/\ pc = "returned"
     /\ fn_args.response.status_code = fn_args.test_case.ExpectedStatusCode
     /\ fn_args.test_case.ExpectedResponse # None
     /\ BodyParses(fn_args.response)
     /\ ResponseBody(fn_args.response) # fn_args.test_case.ExpectedResponse)
        => /\ fn_ret.status = "FAILED"
           /\ fn_ret.error.t = "str"
           /\ fn_ret.error.s
                 = <<"Expected response: ">>
                       \o Format(fn_args.test_case.ExpectedResponse)
                       \o <<", Got: ">>
                       \o Format(ResponseBody(fn_args.response))

\* C14 witness: scenario C, a 200 with body {"ok": false} against {"ok": true}
C14_Witness ==
    /\ pc = "returned"
    /\ fn_args.response.status_code = 200
    /\ fn_args.test_case.ExpectedStatusCode = 200
    /\ fn_args.test_case.ExpectedResponse = OkTrue
    /\ fn_args.response.content_type = "application/json"
    /\ fn_args.response.text = <<"{", "ok", ":", "false", "}">>
    /\ fn_ret.error
          = Str(<<"Expected response: ", "{", "ok", ":", "True", "}",
                  ", Got: ", "{", "ok", ":", "False", "}">>)

\* The checks of the classifier all pass: the status code is the expected one,
\* the body parses, and the body equals ExpectedResponse when that is set
AllChecksPass(resp, test_case) ==
    /\ resp.status_code = test_case.ExpectedStatusCode
    /\ BodyParses(resp)
    /\ test_case.ExpectedResponse # None
          => ResponseBody(resp) = test_case.ExpectedResponse

\* C15: check_response returns PASSED exactly when all checks pass; PASSED
\* comes with error None and FAILED with an error message.
C15_PassedIffAllChecksPass ==
    pc = "returned" =>
        /\ (fn_ret.status = "PASSED")
              <=> AllChecksPass(fn_args.response, fn_args.test_case)
        /\ fn_ret.status = "PASSED" => fn_ret.error = None
        /\ fn_ret.status = "FAILED" => fn_ret.error.t = "str"

\* The entries of a declared Headers value; None declares none
Entries(h) == IF h = None THEN {} ELSE h.d

\* C16: whenever Authorization is set on the test case, also when User and
\* Password are set, prepare_headers_and_auth returns the declared headers (or
\* an empty mapping) with the Authorization entry set to it, and auth None.
C16_AuthorizationPrecedence ==
    (pc = "returned" /\ Truthy(fn_args.test_case.Authorization)) =>
        /\ fn_ret.auth = None
        /\ fn_ret.headers.t = "dict"
        /\ <<"Authorization", fn_args.test_case.Authorization>> \in fn_ret.headers.d
        /\ \A p \in fn_ret.headers.d :
              p[1] = "Authorization" => p[2] = fn_args.test_case.Authorization
        /\ {p \in fn_ret.headers.d : p[1] # "Authorization"}
              = {p \in Entries(fn_args.test_case.Headers) : p[1] # "Authorization"}

\* C16 witness: Authorization, User and Password all set, headers declared
C16_Witness ==
    /\ pc = "returned"
    /\ fn_args.test_case.Authorization = Token
    /\ Truthy(fn_args.test_case.User)
    /\ Truthy(fn_args.test_case.Password)
    /\ fn_args.test_case.Headers = XHeader
    /\ fn_ret.auth = None

\* C17: when Authorization is not set, prepare_headers_and_auth returns the
\* declared headers unchanged (an empty mapping when none are declared); auth
\* is (User, Password) when both are set and None when either is missing.
C17_BasicAuthOrAnonymous ==
    (pc = "returned" /\ ~Truthy(fn_args.test_case.Authorization)) =>
        /\ fn_ret.headers = Dict(Entries(fn_args.test_case.Headers))
        /\ fn_ret.auth
              = IF Truthy(fn_args.test_case.User) /\ Truthy(fn_args.test_case.Password)
                THEN Pair(fn_args.test_case.User, fn_args.test_case.Password)
                ELSE None

\* C17 witness: a user without a password gives an anonymous request
C17_Witness ==
    /\ pc = "returned"
    /\ ~Truthy(fn_args.test_case.Authorization)
    /\ Truthy(fn_args.test_case.User)
    /\ ~Truthy(fn_args.test_case.Password)
    /\ fn_args.test_case.Headers = XHeader
    /\ fn_ret.auth = None
    /\ fn_ret.headers = XHeader

\* C18: no request is dispatched with both a basic-auth credential and an
\* Authorization header, whatever Authorization, User, Password and the
\* declared headers of the test case are.
C18_OneAuthenticationMode ==
    \A k \in 1..Len(sent) :
        ~(/\ sent[k].auth # None
          /\ \E p \in sent[k].headers.d : p[1] = "Authorization")

\* The number of requests dispatched for the i-th test case
Dispatches(i) == Cardinality({k \in 1..Len(sent) : sent[k].case = i})

\* C19: a request is sent exactly once for every processed test case with
\* Run Y and never for a test case with Run N; no request is sent again.
C19_DispatchCount ==
    \A i \in 1..Len(declared) :
        /\ Dispatches(i) <= 1
        /\ declared[i].Run = "N" => Dispatches(i) = 0
        /\ (declared[i].Run # "N" /\ i < idx) => Dispatches(i) = 1
        /\ (declared[i].Run # "N" /\ i > idx) => Dispatches(i) = 0

\* C19 witness: a completed loop with a skipped case and a case that failed on
\* a status-code mismatch, one request sent
C19_Witness ==
    /\ summary # Unbound
    /\ Len(results) = 2
    /\ results[1].Status = "FAILED"
    /\ results[1].ActualStatusCode = Num(404)
    /\ results[2].Status = "SKIPPED"
    /\ Len(sent) = 1

\* The records handed to the store are those of the first cases of the run, in
\* order, each under the identifier of the run
HandedOverInOrder ==
    /\ Len(db_results) <= Len(declared)
    /\ \A k \in 1..Len(db_results) :
          /\ Truthy(execution_id)
          /\ db_results[k][1] = execution_id
          /\ db_results[k][2].TestId = declared[k].TestId

\* At most one summary is handed over, under the identifier of the run, when
\* the records of all cases have been handed over; a run that reached the
\* summary has handed it over
SummaryHandedOverLast ==
    /\ Len(db_summary) <= 1
    /\ db_summary # <<>> =>
          /\ db_summary[1][1] = execution_id
          /\ Len(db_results) = Len(declared)
    /\ summary # Unbound => Len(db_summary) = 1

\* A step keeps the records handed over so far; a step that dispatches the
\* request of case i finds the records of the cases 1..i-1 handed over; a step
\* that hands over the summary finds no summary and the records of all cases
HandOffStep ==
    /\ Len(db_results') >= Len(db_results)
    /\ \A k \in 1..Len(db_results) : db_results'[k] = db_results[k]
    /\ sent' # sent =>
          /\ Len(sent') = Len(sent) + 1
          /\ Len(db_results) = sent'[Len(sent')].case - 1
    /\ db_summary' # db_summary =>
          /\ db_summary = <<>>
          /\ Len(db_results) = Len(declared)
          /\ db_results' = db_results

\* C21: every result record is handed to the store with the identifier of the
\* run, the record of case i is handed over before the request of case i+1 is
\* dispatched, and the summary is handed over once, after the records of all
\* cases (a run that ends before its summary hands none over).
C21_HandOffOrdering ==
    [](HandedOverInOrder /\ SummaryHandedOverLast) /\ [][HandOffStep]_vars

\* C21 witness: three records and then the summary handed over, two requests
\* dispatched
C21_Witness ==
    /\ Len(db_results) = 3
    /\ Len(db_summary) = 1
    /\ Len(sent) = 2
    /\ \A k \in 1..3 : db_results[k][1] = Num(1)

\* C22: once a run has processed all its cases and stored its summary, the
\* hand-over of the result records to the Excel writer raises no error and
\* leaves the records as they are.
C22_ExcelHandOffCompletes ==
    db_summary # <<>> =>
        /\ exception = ""
        /\ summary # Unbound
        /\ Len(results) = Len(declared)


\* The positions of the rows of a sheet whose record APIData accepts
ValidRows(sheet) ==
    {i \in 1..Len(sheet.rows) : APIData(Record(sheet.rows[i])).valid}

\* The position in the returned list of the i-th row, when it is retained
Rank(V, i) == Cardinality({j \in V : j <= i})

\* C23: load_data returns the records APIData accepts, all of them and no
\* other, in the order of the sheet; it returns the empty list when reading
\* the sheet fails.
C23_ValidationGates ==
    pc = "returned" =>
        LET sheet == fn_args.sheet
            V == ValidRows(sheet)
        IN IF sheet.read # "sheet"
           THEN fn_ret = <<>>
           ELSE /\ Len(fn_ret) = Cardinality(V)
                /\ \A i \in V :
                      fn_ret[Rank(V, i)] = APIData(Record(sheet.rows[i])).value

\* C23 witness: a sheet of three rows whose second row has no expected status
\* code; the first and the third row are returned, in that order
C23_Witness ==
    /\ pc = "returned"
    /\ fn_args.sheet.read = "sheet"
    /\ Len(fn_args.sheet.rows) = 3
    /\ ValidRows(fn_args.sheet) = {1, 3}
    /\ fn_args.sheet.rows[2].ExpectedStatusCode = NaN
    /\ Len(fn_ret) = 2
    /\ fn_ret[1].TestId = Str(<<"1">>)
    /\ fn_ret[2].TestId = Str(<<"T", "2">>)


\* C24: a request that requests.request ends with a RequestException raises
\* nothing in the caller: send_request returns a value whose status code and
\* text length the caller can read.
C24_ReturnedValueUsable ==
    \A k \in 1..Len(sent) :
        sent[k].outcome = "RequestException" =>
            /\ exception = ""
            /\ Len(db_results) >= sent[k].case


\* A step that hands a record to insert_test_result, seen from test_api: the
\* store keeps the row unless the call fails, and in both cases the iteration
\* ends as it does without a store (the record appended to results and the
\* loop moved on, or the UnboundLocalError of a skipped first case)
ResultInsertStep ==
    db_results' # db_results =>
        LET k == Len(db_results')
            id == db_results'[k][1]
            rec == db_results'[k][2]
        IN /\ db'.test_results
                = IF k \in db_faults THEN db.test_results
                  ELSE Append(db.test_results, ResultRow(id, rec))
           /\ db'.test_summary = db.test_summary
           /\ IF rec.Status = "SKIPPED" /\ duration = Unbound
              THEN pc' = "raised" /\ exception' = "UnboundLocalError"
              ELSE /\ pc' = pc
                   /\ exception' = exception
                   /\ results' = Append(results, rec)
                   /\ idx' = idx + 1

\* A step that hands the summary to insert_test_summary: the store keeps the
\* row unless the call fails; the summary counts every case of the run
SummaryInsertStep ==
    db_summary' # db_summary =>
        /\ db'.test_summary
              = IF 0 \in db_faults THEN db.test_summary
                ELSE Append(db.test_summary, SummaryRow(execution_id, summary'))
        /\ db'.test_results = db.test_results
        /\ pc' = "aggregated"
        /\ exception' = exception
        /\ summary'.TotalTests = Len(declared)
        /\ summary'.PassedTests + summary'.FailedTests + summary'.SkippedTests
              = Len(declared)
        /\ Len(results) = Len(declared)

\* No error of the store ends the run, and the store holds the records handed
\* over by the calls that did not fail
StoreFailureSwallowed ==
    /\ exception # "sqlite3.Error"
    /\ Len(db.test_results)
          = Cardinality({k \in 1..Len(db_results) : k \notin db_faults})
    /\ Len(db.test_summary)
          = IF db_summary # <<>> /\ 0 \notin db_faults THEN 1 ELSE 0

\* C25: a failure of insert_test_result or insert_test_summary raises nothing
\* in test_api; the run goes on with the next case, and results and the
\* summary counts are what they are when the insert succeeds, while the store
\* lacks the rows of the failed calls.
C25_PersistenceFailureSwallowed ==
    []StoreFailureSwallowed /\ [][ResultInsertStep /\ SummaryInsertStep]_vars

\* C25 witness: the insert of the second of two records and the insert of the
\* summary failed; the summary counts two tests, the store holds one row and
\* no summary
C25_Witness ==
    /\ db_faults = {0, 2}
    /\ summary # Unbound
    /\ summary.TotalTests = 2
    /\ Len(results) = 2
    /\ Len(db.test_results) = 1
    /\ db.test_summary = <<>>
    /\ pc = "aggregated"


\* C26: update_report returns is_open = TRUE exactly when an execution is
\* selected, a row of the table is selected and the modal was closed; in
\* every other case it returns is_open = FALSE and no details, and without an
\* execution all counters are 0 and the table is empty.
C26_ModalState ==
    pc = "returned" =>
        LET opens == /\ Truthy(fn_args.execution_id)
                     /\ fn_args.selected_rows # <<>>
                     /\ ~fn_args.is_open
        IN /\ ~fn_ret.raised
           /\ fn_ret.is_open = opens
           /\ ~opens => fn_ret.test_details = None
           /\ ~Truthy(fn_args.execution_id) =>
                 /\ fn_ret.total_tests = 0
                 /\ fn_ret.passed_tests = 0
                 /\ fn_ret.failed_tests = 0
                 /\ fn_ret.skipped_tests = 0
                 /\ fn_ret.table_data = <<>>

=============================================================================
